---- MODULE Spec2Model ----
(***************************************************************************)
(* The filter-and-aggregation pipeline of the Streamlit dashboard script   *)
(* src/dashboard.py.py.  One script run is one action: it validates the    *)
(* loaded frame, parses the Date column, builds the filter widgets, and    *)
(* computes filtered_df and the figures derived from it.                   *)
(*                                                                         *)
(* A frame is a sequence of rows [idx, cells]: idx is the pandas index     *)
(* label the row keeps through boolean indexing, cells maps each column    *)
(* of the schema to the cell value.  Boolean indexing, frame[mask], is     *)
(* SelectSeq: it keeps the rows whose mask is TRUE, in order.              *)
(***************************************************************************)
EXTENDS Integers, Sequences, FiniteSets, TLC

VARIABLES
    raw,            \* the loaded frame, as fetched / read from the file
    cols,           \* df.columns of the loaded frame
    df,             \* the frame after line 931 (Date parsed)
    outcome,        \* how the last script run ended
    selected,       \* the values of the seven selectboxes
    from_date,      \* st.date_input "From"
    to_date,        \* st.date_input "To"
    filtered_df,    \* the FilteredView (<<>> while the script holds None)
    total_demos,    \* "Total Demos" metric
    daily_data,     \* the per-day time series
    st_error,       \* the columns the st.error message of the run names
    filtered_count, \* "Filtered" card
    completion_rate,\* "Completion" card / gauge, in tenths of a percent
    completed_count,\* "Successful Demos" card
    scheduled_count,\* "Scheduled Demos" card
    sdr_summary,    \* the per-SDR table
    source_summary, \* the per-Source table
    team_summary,   \* the per-Sales-Team table
    ae_summary,     \* the per-AE table
    main_section,   \* what the main area shows below the cards
    total_records,  \* "Total Records" card
    completed,      \* "Completed" metric of the overview row
    scheduled,      \* "Scheduled" metric of the overview row
    leaderboard,    \* the AE leaderboard
    data_source,    \* the radio button of the sidebar
    remote,         \* what a request to the published sheet would return now
    cache,          \* the memoized result of load_google_sheets_data
    requests,       \* requests.get calls made by the last run
    refresh_pressed,\* the last run followed a press of "Refresh Data"
    run_no,         \* number of script runs so far
    error           \* the error load_google_sheets_data returned to the run

vars == <<raw, cols, df, outcome, selected, from_date, to_date,
          filtered_df, total_demos, daily_data, st_error, filtered_count,
          completion_rate, completed_count, scheduled_count, sdr_summary,
          source_summary, team_summary, ae_summary, main_section,
          total_records, completed, scheduled, leaderboard, data_source,
          remote, cache, requests, refresh_pressed, run_no, error>>

\* The variables of the Google Sheets source and of the run sequence.
sourceVars ==
    <<data_source, remote, cache, requests, refresh_pressed, run_no, error>>

----------------------------------------------------------------------------
(* Bounds of the model *)

\* Largest number of rows of a loaded Dataset.
MaxRows == 2

\* Largest number of rows of a Dataset loaded for the aggregations.
MaxAggRows == 3

\* Largest number of AEs of a Dataset loaded for the leaderboard.
MaxGroups == 12

\* Seconds that pass in one step of the clock.
TickSeconds == 100

\* Largest number of script runs of a session with the Google Sheets source.
MaxRuns == 4

\* Resolution of the time of day: a timestamp is day * TicksPerDay + tick.
TicksPerDay == 2

----------------------------------------------------------------------------
(* Cell values *)

\* A missing cell (pandas NaN); read_csv turns empty cells into it.
NaN == "NaN"

\* The null timestamp errors='coerce' produces.
NaT == -1

\* The "All" entry every selectbox puts in front of the data values.
All == "All"

OptionalCols == {"Source", "Sales Team", "AE", "Industry", "Employee Size"}
FieldCols == {"SDR", "Status"} \cup OptionalCols

\* The order in which the script applies the predicates.
CodeOrder == <<"Date", "SDR", "Status", "Source", "Sales Team", "AE",
               "Industry", "Employee Size">>

\* A date cell as text: a day and a time of day, or text that is no date.
DateText(day, tick) == [ok |-> TRUE, day |-> day, tick |-> tick]
BadDate == [ok |-> FALSE, day |-> 0, tick |-> 0]

\* Other column names a sheet may give a date-like column.
OtherDateCols == {"date", "DATE", "Created", "Timestamp"}

MkRow(d, sdr, st, src, team, ae, ind, size) ==
    ("Date" :> d) @@ ("SDR" :> sdr) @@ ("Status" :> st) @@ ("Source" :> src)
    @@ ("Sales Team" :> team) @@ ("AE" :> ae) @@ ("Industry" :> ind)
    @@ ("Employee Size" :> size)
    @@ [c \in OtherDateCols |-> DateText(6, 0)]

\* The sheet rows the model draws Datasets from (days of January 2024).
SheetRows ==
    { MkRow(DateText(5, 1), "A", "Done", "Web", "T1", "E1", "Tech", "Small"),
      MkRow(DateText(6, 1), "B", "done", "Ads", "T2", "E2", "Retail", "Large"),
      MkRow(DateText(6, 0), "A", "Done ", "Web", "T1", "E1", "Tech", "Small"),
      MkRow(BadDate, "B", "Done", "Web", "T1", "E1", "Tech", "Small"),
      MkRow(DateText(5, 0), "All", NaN, NaN, NaN, NaN, NaN, NaN) }

\* The schemas a loaded sheet may have.
Schemas ==
    { {"Date", "SDR", "Status"} \cup o : o \in {{}} \cup {{c} : c \in OptionalCols} }
    \cup { {"SDR", "Status"}, {"Date", "Status"}, {"Status"}, {"Date", "SDR"} }
    \cup { {c, "SDR", "Status"} : c \in OtherDateCols }
    \cup { {"Date", "Created", "SDR", "Status"} }

RowSeqs == UNION { [1..n -> SheetRows] : n \in 0..MaxRows }

\* The sheet rows the aggregations are checked over: every kind of status,
\* SDRs first seen out of alphabetical order, missing cells.
AggRows ==
    { MkRow(DateText(5, 1), "B", "Done", "Web", "T2", "E2", "Tech", "Small"),
      MkRow(DateText(6, 0), "A", "Scheduled", "Ads", "T1", "E1", "Tech", "Small"),
      MkRow(DateText(6, 1), "A", "Rescheduled", "Web", "T1", "E1", "Tech", "Small"),
      MkRow(DateText(5, 0), "B", NaN, "Web", "T2", "E2", "Tech", "Small"),
      MkRow(DateText(6, 0), NaN, "No Show", NaN, NaN, NaN, NaN, NaN) }

AggSchemas ==
    { {"Date", "SDR", "Status"},
      {"Date", "SDR", "Status", "Source", "Sales Team", "AE"} }

AggRowSeqs == UNION { [1..n -> AggRows] : n \in 0..MaxAggRows }

\* The AEs of the sheets the leaderboard is checked over, in string order.
AENames == <<"ae01", "ae02", "ae03", "ae04", "ae05", "ae06", "ae07",
             "ae08", "ae09", "ae10", "ae11", "ae12", "ae13", "ae14">>

\* The statuses of one AE's demos: all done, half done, none done, or a
\* single demo without a status.
BoardStatuses(p) ==
    CASE p = 0 -> <<"Done">>
      [] p = 1 -> <<"Done", "No Show">>
      [] p = 2 -> <<"No Show">>
      [] OTHER -> <<NaN>>

\* The rows of the k-th AE.
BoardRows(k, p) ==
    [i \in 1..Len(BoardStatuses(p)) |->
        MkRow(DateText(5, 1), "A", BoardStatuses(p)[i], "Web", "T1",
              AENames[k], "Tech", "Small")]

\* A sheet of n AEs, the last AE first; the statuses of the k-th AE follow
\* from the stride a and the offset b.
RECURSIVE BoardSheet(_, _, _)
BoardSheet(n, a, b) ==
    IF n = 0 THEN <<>>
    ELSE BoardRows(n, (n * a + b) % 4) \o BoardSheet(n - 1, a, b)

BoardSchema == {"Date", "SDR", "Status", "AE"}

\* The frame read_csv / read_excel builds: a RangeIndex and the schema's cells.
MkFrame(rows, schema) ==
    [i \in 1..Len(rows) |-> [idx |-> i - 1, cells |-> [c \in schema |-> rows[i][c]]]]

----------------------------------------------------------------------------
(* Frame operations *)

\* pd.to_datetime(errors='coerce') on one cell.
ToDatetime(cell) ==
    IF cell.ok THEN cell.day * TicksPerDay + cell.tick ELSE NaT

\* Variant: the date is read from the Created column when the sheet has one.
ParseDates_FromCreated(frame) ==
    [i \in 1..Len(frame) |->
        LET cells == frame[i].cells
            from == IF "Created" \in DOMAIN cells THEN "Created" ELSE "Date"
        IN  [frame[i] EXCEPT
                !.cells = [cells EXCEPT !["Date"] = ToDatetime(cells[from])]]]

\* df['Date'] = pd.to_datetime(df['Date'], errors='coerce')
ParseDates(frame) ==
    [i \in 1..Len(frame) |->
        [frame[i] EXCEPT !.cells = [@ EXCEPT !["Date"] = ToDatetime(@)]]]

\* Timestamp.date(): the calendar date of a timestamp.
DateOf(ts) == ts \div TicksPerDay

IsNull(ts) == ts = NaT

\* The non-null timestamps of the Date column (min()/max() skip NaT).
ValidStamps(frame) ==
    { frame[i].cells["Date"] : i \in 1..Len(frame) } \ {NaT}

SetMin(S) == CHOOSE x \in S : \A y \in S : x <= y
SetMax(S) == CHOOSE x \in S : \A y \in S : x >= y

\* df['Date'].min().date() and df['Date'].max().date()
MinDate(frame) == DateOf(SetMin(ValidStamps(frame)))
MaxDate(frame) == DateOf(SetMax(ValidStamps(frame)))

\* df[c].dropna().unique(): the values a selectbox offers besides "All".
Uniques(frame, c) == { frame[i].cells[c] : i \in 1..Len(frame) } \ {NaN}

\* options=["All"] + sorted(...)
Options(frame, c) == {All} \cup Uniques(frame, c)

----------------------------------------------------------------------------
(* The Filter Engine *)

\* Variant: the lower end of the range is exclusive.
DateGE_Strict(ts, d) == ~IsNull(ts) /\ DateOf(ts) > d

\* (df['Date'].dt.date >= from_date): a null date compares False.
DateGE(ts, d) == ~IsNull(ts) /\ DateOf(ts) >= d

\* Variant: the timestamp itself is compared with midnight of to_date.
DateLE_Midnight(ts, d) == ~IsNull(ts) /\ ts <= d * TicksPerDay

\* (df['Date'].dt.date <= to_date): a null date compares False.
DateLE(ts, d) == ~IsNull(ts) /\ DateOf(ts) <= d

RECURSIVE Reverse(_)
Reverse(q) == IF q = <<>> THEN <<>> ELSE Reverse(Tail(q)) \o <<Head(q)>>

\* Variant: the rows in range come newest first.
DateFilter_NewestFirst(frame, lo, hi) ==
    LET keep(r) == DateGE(r.cells["Date"], lo) /\ DateLE(r.cells["Date"], hi)
    IN  Reverse(SelectSeq(frame, keep))

\* Variant: the first row in range is skipped like a header row.
DateFilter_SkipFirst(frame, lo, hi) ==
    LET keep(r) == DateGE(r.cells["Date"], lo) /\ DateLE(r.cells["Date"], hi)
        kept == SelectSeq(frame, keep)
    IN  IF kept = <<>> THEN kept ELSE Tail(kept)

\* Variant: rows without a date pass the date range.
DateFilter_KeepNull(frame, lo, hi) ==
    LET keep(r) == \/ IsNull(r.cells["Date"])
                   \/ DateGE(r.cells["Date"], lo) /\ DateLE(r.cells["Date"], hi)
    IN  SelectSeq(frame, keep)

\* df[(df['Date'].dt.date >= from_date) & (df['Date'].dt.date <= to_date)]
DateFilter(frame, lo, hi) ==
    LET keep(r) == DateGE(r.cells["Date"], lo) /\ DateLE(r.cells["Date"], hi)
    IN  SelectSeq(frame, keep)

\* strip() and lower() on the status values of the sheet.
StripLower(s) ==
    CASE s = "Done" -> "done"
      [] s = "Done " -> "done"
      [] OTHER -> s

\* Variant: the comparison ignores case and surrounding whitespace.
CellEq_Normalized(cell, v) == cell # NaN /\ StripLower(cell) = StripLower(v)

\* One cell against the selected value: exact equality, NaN equal to nothing.
CellEq(cell, v) == cell # NaN /\ cell = v

\* Variant: a filter that would leave nothing is skipped.
FieldEq_KeepAllIfNone(frame, c, v) ==
    LET keep(r) == CellEq(r.cells[c], v)
    IN  IF SelectSeq(frame, keep) = <<>> THEN frame ELSE SelectSeq(frame, keep)

\* filtered_df[filtered_df[c] == v]
FieldEq(frame, c, v) ==
    LET keep(r) == CellEq(r.cells[c], v)
    IN  SelectSeq(frame, keep)

\* Variant: the filter does not look whether the column is there.
PredicateApplies_NoGuard(c, schema, crit) == crit.sel[c] # All

\* Variant: the Employee Size filter is left out.
PredicateApplies_NoSize(c, schema, crit) ==
    /\ c # "Employee Size"
    /\ crit.sel[c] # All /\ (c \in OptionalCols => c \in schema)

\* The condition of the `if` in front of each equality filter.
PredicateApplies(c, schema, crit) ==
    crit.sel[c] # All /\ (c \in OptionalCols => c \in schema)

\* A frame the run holds, or the exception that ended the run.
Frame(rows) == [raised |-> FALSE, rows |-> rows]
KeyError == [raised |-> TRUE, rows |-> <<>>]

\* frame[c] for the filter: a column that is not there raises KeyError.
FieldFilter(frame, c, v, schema) ==
    IF c \in schema THEN Frame(FieldEq(frame, c, v)) ELSE KeyError

\* One predicate of the criteria applied to the frame held so far.
Step(p, acc, schema, crit) ==
    IF acc.raised THEN acc
    ELSE IF p = "Date" THEN Frame(DateFilter(acc.rows, crit.from, crit.to))
    ELSE IF PredicateApplies(p, schema, crit)
         THEN FieldFilter(acc.rows, p, crit.sel[p], schema)
         ELSE acc

RECURSIVE ApplyInOrder(_, _, _, _)
ApplyInOrder(order, acc, schema, crit) ==
    IF order = <<>> THEN acc
    ELSE ApplyInOrder(Tail(order), Step(Head(order), acc, schema, crit),
                      schema, crit)

\* Lines 992-1016: the date range, then the seven equality filters in turn.
ApplyFilters(frame, schema, crit) ==
    ApplyInOrder(CodeOrder, Frame(frame), schema, crit)

----------------------------------------------------------------------------
(* The figures derived from the view *)

\* str.lower() on the status values of the sheet.
StrLower(s) ==
    CASE s = "Done" -> "done"
      [] s = "Done " -> "done "
      [] s = "Scheduled" -> "scheduled"
      [] s = "Rescheduled" -> "rescheduled"
      [] s = "No Show" -> "no show"
      [] OTHER -> s

\* x.str.lower() == 'done' on one cell (NaN stays NaN and compares False).
IsDone(cell) == cell # NaN /\ StrLower(cell) = "done"

\* The keys groupby(filtered_df['Date'].dt.date) forms: null keys are dropped.
DayKeys(frame) == { DateOf(ts) : ts \in ValidStamps(frame) }

RECURSIVE SortedSeq(_)
SortedSeq(S) ==
    IF S = {} THEN <<>> ELSE <<SetMin(S)>> \o SortedSeq(S \ {SetMin(S)})

\* One row of daily_data: 'count' counts the non-null Status cells of the day.
DayRow(frame, d) ==
    LET onDay(r) == ~IsNull(r.cells["Date"]) /\ DateOf(r.cells["Date"]) = d
        hasStatus(r) == onDay(r) /\ r.cells["Status"] # NaN
        done(r) == onDay(r) /\ IsDone(r.cells["Status"])
    IN  [Date |-> d, Total_Demos |-> Len(SelectSeq(frame, hasStatus)),
         Completed_Demos |-> Len(SelectSeq(frame, done))]

\* Lines 1395-1398: groupby sorts the day keys ascending.
DailyData(frame) ==
    LET days == SortedSeq(DayKeys(frame))
    IN  [k \in 1..Len(days) |-> DayRow(frame, days[k])]

\* The number of rows of the frame whose status lower-cases to 'done'.
DoneCount(frame) ==
    LET done(r) == IsDone(r.cells["Status"]) IN Len(SelectSeq(frame, done))

\* Variant: the statuses of the "Scheduled" card of the overview.
ScheduledStatuses_Pending == {"scheduled", "rescheduled"}

\* scheduled_statuses = ['done', 'scheduled', 'rescheduled']
ScheduledStatuses == {"done", "scheduled", "rescheduled"}

\* filtered_df['Status'].str.lower().isin(scheduled_statuses) on one cell.
IsScheduled(cell) == cell # NaN /\ StrLower(cell) \in ScheduledStatuses

\* scheduled_count: the rows whose status is one of the scheduled statuses.
ScheduledCount(frame) ==
    LET sched(r) == IsScheduled(r.cells["Status"])
    IN  Len(SelectSeq(frame, sched))

\* Variant: the overview's "Scheduled" metric counts done demos as well.
OverviewStatuses_WithDone == {"done", "scheduled", "rescheduled"}

\* .isin(['scheduled', 'rescheduled']) of the overview row.
OverviewStatuses == {"scheduled", "rescheduled"}

\* scheduled: the rows of the overview's "Scheduled" metric.
OverviewScheduled(frame) ==
    LET sched(r) == /\ r.cells["Status"] # NaN
                    /\ StrLower(r.cells["Status"]) \in OverviewStatuses
    IN  Len(SelectSeq(frame, sched))

\* num / den * 100 shown with one decimal: tenths of a percent, den > 0.
Tenths(num, den) == (2000 * num + den) \div (2 * den)

\* The quotient of two pandas columns where the divisor is 0 (0 / 0).
NaNRate == -1

\* (Completed_Demos / Total_Demos * 100).round(1) on one row of a table.
PdRate(num, den) == IF den = 0 THEN NaNRate ELSE Tenths(num, den)

\* Python's num / den * 100: a zero divisor raises ZeroDivisionError.
PyRate(num, den) ==
    [raised |-> den = 0, value |-> IF den = 0 THEN 0 ELSE Tenths(num, den)]

\* Variant: the rate is computed whatever the view holds.
RateGuard_Always(view) == TRUE

\* `filtered_df is not None and not filtered_df.empty` in front of the
\* completion card; `if len(filtered_df) > 0` in front of the gauge.
RateGuard(view) == view # <<>>

\* The completion rate of the card: 0 ("0%") without rows.
KpiCompletion(view) ==
    IF RateGuard(view) THEN PyRate(DoneCount(view), Len(view))
    ELSE [raised |-> FALSE, value |-> 0]

\* The place of a cell value in Python's string order (sorted group keys).
StrRank(v) ==
    CASE v = "A" -> 1 [] v = "Ads" -> 2 [] v = "All" -> 3 [] v = "B" -> 4
      [] v = "E1" -> 5 [] v = "E2" -> 6 [] v = "T1" -> 7 [] v = "T2" -> 8
      [] v = "Web" -> 9
      [] v \in { AENames[k] : k \in 1..Len(AENames) } ->
             10 + (CHOOSE k \in 1..Len(AENames) : AENames[k] = v)
      [] OTHER -> 10

RECURSIVE SortedKeys(_)
SortedKeys(S) ==
    IF S = {} THEN <<>>
    ELSE LET first == CHOOSE x \in S : \A y \in S : StrRank(x) <= StrRank(y)
         IN  <<first>> \o SortedKeys(S \ {first})

\* One row of a per-dimension table: 'count' counts the non-null Status
\* cells of the group, the lambda those that lower-case to 'done'.
GroupRow(frame, c, key) ==
    LET counted(r) == r.cells[c] = key /\ r.cells["Status"] # NaN
        done(r) == r.cells[c] = key /\ IsDone(r.cells["Status"])
        total == Len(SelectSeq(frame, counted))
        dones == Len(SelectSeq(frame, done))
    IN  [Key |-> key, Total_Demos |-> total, Completed_Demos |-> dones,
         Success_Rate |-> PdRate(dones, total)]

\* The non-null values of column c in the order of their first row.
RECURSIVE FirstSeen(_, _)
FirstSeen(frame, c) ==
    IF frame = <<>> THEN <<>>
    ELSE LET n == Len(frame)
             v == frame[n].cells[c]
             front == FirstSeen(SubSeq(frame, 1, n - 1), c)
         IN  IF v = NaN \/ \E k \in 1..Len(front) : front[k] = v
             THEN front ELSE Append(front, v)

\* Variant: the groups come in first-seen order (groupby(c, sort=False)).
GroupKeys_FirstSeen(frame, c) == FirstSeen(frame, c)

\* The keys of filtered_df.groupby(c): the non-null values, sorted.
GroupKeys(frame, c) == SortedKeys(Uniques(frame, c))

\* filtered_df.groupby(c).agg({'Status': ['count', lambda]}).reset_index()
GroupSummary(frame, c) ==
    LET keys == GroupKeys(frame, c)
    IN  [k \in 1..Len(keys) |-> GroupRow(frame, c, keys[k])]

\* The table of an optional dimension is built only if the column exists.
OptionalSummary(frame, c, schema) ==
    IF c \in schema THEN GroupSummary(frame, c) ELSE <<>>

\* head(10)
HeadRows == 10

\* Row a comes before row b when sorted by Success_Rate descending; NaN
\* rates go last.
RateBefore(a, b) ==
    /\ a.Success_Rate # NaNRate
    /\ b.Success_Rate = NaNRate \/ a.Success_Rate > b.Success_Rate

\* sort_values('Success_Rate', ascending=False): rows of equal rate keep
\* the order of the table.
RECURSIVE SortByRate(_)
SortByRate(table) ==
    IF table = <<>> THEN <<>>
    ELSE LET x == Head(table)
             s == SortByRate(Tail(table))
             p == Cardinality({ i \in 1..Len(s) : RateBefore(s[i], x) })
         IN  SubSeq(s, 1, p) \o <<x>> \o SubSeq(s, p + 1, Len(s))

\* Variant: the leaderboard is the head of the table as it is.
Leaderboard_Unsorted(table) ==
    SubSeq(table, 1, IF Len(table) < HeadRows THEN Len(table) ELSE HeadRows)

\* leaderboard = ae_summary.sort_values(...).head(10)
Leaderboard(table) ==
    LET s == SortByRate(table)
    IN  SubSeq(s, 1, IF Len(s) < HeadRows THEN Len(s) ELSE HeadRows)

\* Variant: the metric counts the Dataset instead of the view.
TotalDemos_OfDataset(frame, view) == Len(frame)

\* total_demos = len(filtered_df)
TotalDemos(frame, view) == Len(view)

\* Series.str raises AttributeError on a column holding no string at all.
StatusIsText(frame) == Uniques(frame, "Status") # {}

----------------------------------------------------------------------------
(* One script run *)

NoSelection == [c \in FieldCols |-> All]

\* Python's None.
None == "None"

\* The cache of load_google_sheets_data without an entry.
NoCache == [full |-> FALSE, value |-> None, age |-> 0]

\* The columns the st.error message of a halted run names.
ErrorNames(how) ==
    IF how = "missing Date" THEN {"Date"}
    ELSE IF how = "missing SDR" THEN {"SDR"}
    ELSE {}

\* The figures of a run that shows none.
NoFigures ==
    [total_demos |-> 0, daily_data |-> <<>>, filtered_count |-> 0,
     completion_rate |-> 0, completed_count |-> 0, scheduled_count |-> 0,
     sdr_summary |-> <<>>, source_summary |-> <<>>, team_summary |-> <<>>,
     ae_summary |-> <<>>, main_section |-> "none", total_records |-> 0,
     completed |-> 0, scheduled |-> 0, leaderboard |-> <<>>]

\* Variant: the main area is built whatever the view holds.
MainGuard_Always(view) == TRUE

\* `if not filtered_df.empty:` in front of the figures, the tables and the
\* charts; its else branch warns that no data matches the filters.
MainGuard(view) == view # <<>>

\* The counts of Records without a date that a run reports as warnings:
\* the date parsing emits no message, and the script's only st.warning
\* (no data matches the filters) carries no count.
ParseWarningCounts == {}

\* The run ended before the widgets and the view were built.
Halted(rawF, schema, frame, how) ==
    [raw |-> rawF, cols |-> schema, df |-> frame, outcome |-> how,
     selected |-> NoSelection, from_date |-> 0, to_date |-> 0,
     filtered_df |-> <<>>, st_error |-> ErrorNames(how)] @@ NoFigures

\* Lines 1036-1399 for a non-None filtered_df.
MainBody(rawF, schema, frame, crit, view) ==
    LET base == [raw |-> rawF, cols |-> schema, df |-> frame, outcome |-> "ok",
                 selected |-> crit.sel, from_date |-> crit.from,
                 to_date |-> crit.to, filtered_df |-> view,
                 st_error |-> {}] @@ NoFigures
        card == [base EXCEPT !.filtered_count = Len(view),
                             !.total_records = Len(frame)]
    IN  IF RateGuard(view) /\ ~StatusIsText(frame)
        THEN [card EXCEPT !.outcome = "AttributeError"]
        ELSE IF KpiCompletion(view).raised
        THEN [card EXCEPT !.outcome = "ZeroDivisionError"]
        ELSE IF ~MainGuard(view)
        THEN [card EXCEPT !.completion_rate = KpiCompletion(view).value,
                          !.main_section = "no match"]
        ELSE [card EXCEPT
                 !.main_section = "dashboard",
                 !.completion_rate = KpiCompletion(view).value,
                 !.total_demos = TotalDemos(frame, view),
                 !.completed = DoneCount(view),
                 !.scheduled = OverviewScheduled(view),
                 !.leaderboard =
                     Leaderboard(OptionalSummary(view, "AE", schema)),
                 !.completed_count = DoneCount(view),
                 !.scheduled_count = ScheduledCount(view),
                 !.sdr_summary = GroupSummary(view, "SDR"),
                 !.source_summary = OptionalSummary(view, "Source", schema),
                 !.team_summary = OptionalSummary(view, "Sales Team", schema),
                 !.ae_summary = OptionalSummary(view, "AE", schema),
                 !.daily_data = DailyData(view)]

\* The selectbox of column c exists in a run over this schema.
Rendered(c, schema) == c \in {"SDR", "Status"} \/ c \in schema

\* Lines 920-1024, then the main body: `want` holds what the widgets hold.
\* A sheet without Status fails at df['Status'] (line 944); a sheet without
\* any valid date gives min_date = NaT, which st.date_input cannot take.
RunScript(rawF, schema, want) ==
    IF Len(rawF) = 0 THEN Halted(rawF, schema, rawF, "empty")
    ELSE IF "Date" \notin schema THEN Halted(rawF, schema, rawF, "missing Date")
    ELSE IF "SDR" \notin schema THEN Halted(rawF, schema, rawF, "missing SDR")
    ELSE LET frame == ParseDates(rawF) IN
         IF "Status" \notin schema THEN Halted(rawF, schema, frame, "KeyError")
         ELSE IF ValidStamps(frame) = {}
              THEN Halted(rawF, schema, frame, "ValueError")
         ELSE LET crit == [sel |-> [c \in FieldCols |->
                                      IF Rendered(c, schema) THEN want.sel[c]
                                      ELSE All],
                           from |-> want.from, to |-> want.to]
                  res == ApplyFilters(frame, schema, crit)
              IN  IF res.raised THEN Halted(rawF, schema, frame, "KeyError")
                  ELSE MainBody(rawF, schema, frame, crit, res.rows)

\* The state after a run.
Becomes(run) ==
    \E s \in {run} :
        /\ raw' = s.raw
        /\ cols' = s.cols
        /\ df' = s.df
        /\ outcome' = s.outcome
        /\ selected' = s.selected
        /\ from_date' = s.from_date
        /\ to_date' = s.to_date
        /\ filtered_df' = s.filtered_df
        /\ total_demos' = s.total_demos
        /\ daily_data' = s.daily_data
        /\ st_error' = s.st_error
        /\ filtered_count' = s.filtered_count
        /\ completion_rate' = s.completion_rate
        /\ completed_count' = s.completed_count
        /\ scheduled_count' = s.scheduled_count
        /\ sdr_summary' = s.sdr_summary
        /\ source_summary' = s.source_summary
        /\ team_summary' = s.team_summary
        /\ ae_summary' = s.ae_summary
        /\ main_section' = s.main_section
        /\ total_records' = s.total_records
        /\ completed' = s.completed
        /\ scheduled' = s.scheduled
        /\ leaderboard' = s.leaderboard

\* The sidebar of the last run was built up to its widgets.
WidgetsShown == outcome \in {"ok", "AttributeError"}

\* What the widgets hold in the first run over a frame: value=min_date,
\* value=max_date, and index 0 ("All") of every selectbox.
Defaults(rawF, schema) ==
    IF {"Date", "SDR", "Status"} \subseteq schema
       /\ ValidStamps(ParseDates(rawF)) # {}
    THEN [sel |-> NoSelection, from |-> MinDate(ParseDates(rawF)),
          to |-> MaxDate(ParseDates(rawF))]
    ELSE [sel |-> NoSelection, from |-> 0, to |-> 0]

Held == [sel |-> selected, from |-> from_date, to |-> to_date]

----------------------------------------------------------------------------
(* Actions *)

\* A file is uploaded (or the sheet is fetched) and the script runs over it
\* with the widgets at their defaults.  A frame that replaces another one
\* is Unload followed by Load; a selectbox Streamlit would carry over
\* unchanged holds a value the user can pick again with SelectField.
Load(rows, schema) ==
    /\ outcome = "no data"
    /\ UNCHANGED sourceVars
    /\ LET rawF == MkFrame(rows, schema)
       IN  Becomes(RunScript(rawF, schema, Defaults(rawF, schema)))

\* The uploaded file is removed: df = None, and nothing is filtered.
Unload ==
    /\ outcome # "no data"
    /\ UNCHANGED sourceVars
    /\ Becomes(Halted(<<>>, {}, <<>>, "no data"))

\* Variant: the rerun narrows the view of the previous run instead of
\* filtering the Dataset again.
SelectField_Sticky(c) ==
    /\ WidgetsShown
    /\ UNCHANGED sourceVars
    /\ Rendered(c, cols)
    /\ \E v \in Options(df, c) \ {selected[c]} :
           LET run == RunScript(raw, cols, [Held EXCEPT !.sel[c] = v])
               shown(r) == \E j \in 1..Len(filtered_df) : filtered_df[j] = r
           IN  Becomes([run EXCEPT !.filtered_df = SelectSeq(@, shown)])

\* Variant: the filter is applied to the Dataset in place.
SelectField_InPlace(c) ==
    /\ WidgetsShown
    /\ UNCHANGED sourceVars
    /\ Rendered(c, cols)
    /\ \E v \in Options(df, c) \ {selected[c]} :
           LET run == RunScript(raw, cols, [Held EXCEPT !.sel[c] = v])
           IN  Becomes([run EXCEPT !.df = run.filtered_df,
                                   !.total_records = Len(run.filtered_df)])

\* The user picks an entry of a selectbox; the script reruns.
SelectField(c) ==
    /\ WidgetsShown
    /\ UNCHANGED sourceVars
    /\ Rendered(c, cols)
    /\ \E v \in Options(df, c) \ {selected[c]} :
           Becomes(RunScript(raw, cols, [Held EXCEPT !.sel[c] = v]))

\* The user picks the "From" date, between the sheet's first and last day.
SelectFrom ==
    /\ WidgetsShown
    /\ UNCHANGED sourceVars
    /\ \E d \in (MinDate(df)..MaxDate(df)) \ {from_date} :
           Becomes(RunScript(raw, cols, [Held EXCEPT !.from = d]))

\* The user picks the "To" date.
SelectTo ==
    /\ WidgetsShown
    /\ UNCHANGED sourceVars
    /\ \E d \in (MinDate(df)..MaxDate(df)) \ {to_date} :
           Becomes(RunScript(raw, cols, [Held EXCEPT !.to = d]))

\* Before any data: the upload source is chosen and no file is given.
Init ==
    /\ raw = <<>>
    /\ cols = {}
    /\ df = <<>>
    /\ outcome = "no data"
    /\ selected = NoSelection
    /\ from_date = 0
    /\ to_date = 0
    /\ filtered_df = <<>>
    /\ total_demos = 0
    /\ daily_data = <<>>
    /\ st_error = {}
    /\ filtered_count = 0
    /\ completion_rate = 0
    /\ completed_count = 0
    /\ scheduled_count = 0
    /\ sdr_summary = <<>>
    /\ source_summary = <<>>
    /\ team_summary = <<>>
    /\ ae_summary = <<>>
    /\ main_section = "none"
    /\ total_records = 0
    /\ completed = 0
    /\ scheduled = 0
    /\ leaderboard = <<>>
    /\ data_source = "Upload Excel File"
    /\ remote = "none"
    /\ cache = NoCache
    /\ requests = 0
    /\ refresh_pressed = FALSE
    /\ run_no = 1
    /\ error = None

Next ==
    \/ \E rows \in RowSeqs, schema \in Schemas : Load(rows, schema)
    \/ Unload
    \/ \E c \in FieldCols : SelectField(c)
    \/ SelectFrom
    \/ SelectTo

Spec == Init /\ [][Next]_vars

\* The same script over the sheets of the aggregations, filtered by date
\* and by SDR.
NextAgg ==
    \/ \E rows \in AggRowSeqs, schema \in AggSchemas : Load(rows, schema)
    \/ Unload
    \/ SelectField("SDR")
    \/ SelectFrom
    \/ SelectTo

SpecAgg == Init /\ [][NextAgg]_vars

\* The same script over sheets of up to MaxGroups AEs, filtered by status.
NextBoard ==
    \/ \E n \in 0..MaxGroups, a \in 0..3, b \in 0..3 :
           Load(BoardSheet(n, a, b), BoardSchema)
    \/ Unload
    \/ SelectField("Status")

SpecBoard == Init /\ [][NextBoard]_vars

----------------------------------------------------------------------------
(* The Google Sheets source *)

\* @st.cache_data(ttl=300)
Ttl == 300

GoogleSheets == "Google Sheets (Auto-Update)"

\* The published sheet at two moments of its life.
SheetA == <<MkRow(DateText(5, 1), "A", "Done", "Web", "T1", "E1", "Tech", "Small")>>
SheetB ==
    SheetA \o <<MkRow(DateText(6, 0), "B", "Scheduled", "Ads", "T2", "E2",
                      "Tech", "Small")>>

SheetSchema == {"Date", "SDR", "Status"}

\* What requests.get(csv_url, timeout=15) may meet: the sheet served with
\* status 200, another status code, or an exception (timeout, no network).
Remotes ==
    { [kind |-> "response", status |-> 200, rows |-> SheetA],
      [kind |-> "response", status |-> 200, rows |-> SheetB],
      [kind |-> "response", status |-> 500, rows |-> <<>>],
      [kind |-> "exception", status |-> 0, rows |-> <<>>] }

\* The body of load_google_sheets_data: one request, and (df, None) or
\* (None, message).
Request(r) ==
    IF r.kind = "exception"
    THEN [df |-> None, error |-> "Error loading data: timeout"]
    ELSE IF r.status = 200
    THEN [df |-> MkFrame(r.rows, SheetSchema), error |-> None]
    ELSE [df |-> None, error |-> "Failed to fetch data. Status code: 500"]

\* Variant: a failed request is tried once more.
FetchAttempts_Retry(v) == IF v.error = None THEN 1 ELSE 2

\* The requests one execution of the body makes.
FetchAttempts(v) == 1

\* Variant: the memoized value serves only until the clock moves.
CacheHit_Fresh(c) == c.full /\ c.age = 0

\* The cache holds an entry younger than the ttl.
CacheHit(c) == c.full /\ c.age < Ttl

\* Variant: only a fetched frame is memoized.
CacheStores_OnlySuccess(v) == v.error = None

\* st.cache_data memoizes whatever the function returns.
CacheStores(v) == TRUE

\* The call load_google_sheets_data() of a run: the memoized value, or the
\* body's result, which then is memoized.
LoadGoogleSheetsData(c, r) ==
    IF CacheHit(c)
    THEN [value |-> c.value, requests |-> 0, cache |-> c]
    ELSE LET v == Request(r)
         IN  [value |-> v, requests |-> FetchAttempts(v),
              cache |-> IF CacheStores(v)
                        THEN [full |-> TRUE, value |-> v, age |-> 0]
                        ELSE NoCache]

\* What a run shows after the call returned value v: the error and
\* st.stop(), or the pipeline over the frame with the widgets at their
\* defaults.
SheetsDisplay(v) ==
    IF v.error # None THEN Halted(<<>>, {}, <<>>, "fetch error")
    ELSE RunScript(v.df, SheetSchema, Defaults(v.df, SheetSchema))

\* The state after a run whose call found the cache c.
SheetsRun(c, pressed) ==
    LET call == LoadGoogleSheetsData(c, remote)
    IN  /\ Becomes(SheetsDisplay(call.value))
        /\ cache' = call.cache
        /\ requests' = call.requests
        /\ error' = call.value.error
        /\ refresh_pressed' = pressed
        /\ run_no' = run_no + 1
        /\ UNCHANGED <<data_source, remote>>

\* An interaction reruns the script.
Rerun ==
    /\ data_source = GoogleSheets
    /\ run_no < MaxRuns
    /\ SheetsRun(cache, FALSE)

\* Variant: the button reruns the script without clearing the cache.
Refresh_KeepCache ==
    /\ data_source = GoogleSheets
    /\ run_no < MaxRuns
    /\ SheetsRun(cache, TRUE)

\* "Refresh Data" is pressed: st.cache_data.clear(), st.rerun().
Refresh ==
    /\ data_source = GoogleSheets
    /\ run_no < MaxRuns
    /\ SheetsRun(NoCache, TRUE)

\* Time passes; an entry as old as the ttl is expired and ages no more.
Tick ==
    /\ cache.full
    /\ cache.age < Ttl
    /\ cache' = [cache EXCEPT
                    !.age = IF @ + TickSeconds > Ttl THEN Ttl ELSE @ + TickSeconds]
    /\ UNCHANGED <<raw, cols, df, outcome, selected, from_date, to_date,
                   filtered_df, total_demos, daily_data, st_error,
                   filtered_count, completion_rate, completed_count,
                   scheduled_count, sdr_summary, source_summary, team_summary,
                   ae_summary, main_section, total_records, completed,
                   scheduled, leaderboard, data_source, remote, requests,
                   refresh_pressed, run_no, error>>

\* The published sheet is edited, or the source breaks or recovers.
SourceChanges ==
    /\ data_source = GoogleSheets
    /\ remote' \in Remotes \ {remote}
    /\ UNCHANGED <<raw, cols, df, outcome, selected, from_date, to_date,
                   filtered_df, total_demos, daily_data, st_error,
                   filtered_count, completion_rate, completed_count,
                   scheduled_count, sdr_summary, source_summary, team_summary,
                   ae_summary, main_section, total_records, completed,
                   scheduled, leaderboard, data_source, cache, requests,
                   refresh_pressed, run_no, error>>

\* The first run of a session: the radio is at its first option, the cache
\* is empty and the sheet is requested.
InitSheets ==
    \E r \in Remotes :
      LET call == LoadGoogleSheetsData(NoCache, r)
      IN \E s \in {SheetsDisplay(call.value)} :
        /\ data_source = GoogleSheets
        /\ remote = r
        /\ cache = call.cache
        /\ requests = call.requests
        /\ error = call.value.error
        /\ refresh_pressed = FALSE
        /\ run_no = 1
        /\ raw = s.raw
        /\ cols = s.cols
        /\ df = s.df
        /\ outcome = s.outcome
        /\ selected = s.selected
        /\ from_date = s.from_date
        /\ to_date = s.to_date
        /\ filtered_df = s.filtered_df
        /\ total_demos = s.total_demos
        /\ daily_data = s.daily_data
        /\ st_error = s.st_error
        /\ filtered_count = s.filtered_count
        /\ completion_rate = s.completion_rate
        /\ completed_count = s.completed_count
        /\ scheduled_count = s.scheduled_count
        /\ sdr_summary = s.sdr_summary
        /\ source_summary = s.source_summary
        /\ team_summary = s.team_summary
        /\ ae_summary = s.ae_summary
        /\ main_section = s.main_section
        /\ total_records = s.total_records
        /\ completed = s.completed
        /\ scheduled = s.scheduled
        /\ leaderboard = s.leaderboard

NextSheets ==
    \/ Rerun
    \/ Refresh
    \/ Tick
    \/ SourceChanges

SpecSheets == InitSheets /\ [][NextSheets]_vars

----------------------------------------------------------------------------
(* Properties of the Filter Engine *)

\* filtered_df holds a frame (the sidebar ran through line 1016).
HasView == WidgetsShown

\* The Record is in the FilteredView.
InView(r) == \E k \in 1..Len(filtered_df) : filtered_df[k] = r

\* The Record's date is set and lies in [from_date, to_date].
InDateRange(r) ==
    /\ r.cells["Date"] # NaT
    /\ from_date <= DateOf(r.cells["Date"])
    /\ DateOf(r.cells["Date"]) <= to_date

\* The Record satisfies the predicate on field c, if that predicate is set.
FieldOK(r, c) ==
    selected[c] # All => (c \in cols /\ r.cells[c] = selected[c])

FieldsOK(r) == \A c \in FieldCols : FieldOK(r, c)

DfRows == { df[i] : i \in 1..Len(df) }

SetFields == { c \in FieldCols : selected[c] # All }

\* C1: a Record of the Dataset is in the FilteredView if and only if it
\* satisfies the date range and every field predicate that is not "All";
\* a predicate left at "All" removes nothing.
C1_ViewIsConjunction ==
    HasView => \A r \in DfRows : InView(r) <=> (InDateRange(r) /\ FieldsOK(r))

\* C1 witness: two field predicates are set, one Record passes all of them
\* and another, inside the date range, is removed by a field predicate.
C1_Witness ==
    /\ HasView
    /\ Cardinality(SetFields) >= 2
    /\ "Employee Size" \in SetFields
    /\ \E r \in DfRows : InView(r)
    /\ \E r \in DfRows : InDateRange(r) /\ ~FieldsOK(r) /\ ~InView(r)

\* C2: the date range is inclusive on both ends at calendar-date precision:
\* a Record dated on from_date or on to_date (at any time of day, the range
\* not being empty) is kept by the date predicate, and a Record dated before
\* from_date or after to_date is removed.
C2_DateRangeInclusive ==
    HasView =>
        \A r \in DfRows :
            LET ts == r.cells["Date"] IN
            /\ ( /\ ts # NaT
                 /\ from_date <= to_date
                 /\ DateOf(ts) \in {from_date, to_date}
                 /\ FieldsOK(r) ) => InView(r)
            /\ ( /\ ts # NaT
                 /\ (DateOf(ts) < from_date \/ DateOf(ts) > to_date) )
               => ~InView(r)

\* C2 witness: a Record dated on to_date after midnight is kept while a
\* Record of the day before from_date is removed.
C2_Witness ==
    /\ HasView
    /\ from_date = to_date
    /\ \E r \in DfRows :
           /\ r.cells["Date"] # NaT
           /\ DateOf(r.cells["Date"]) = to_date
           /\ r.cells["Date"] > to_date * TicksPerDay
           /\ InView(r)
    /\ \E r \in DfRows :
           /\ r.cells["Date"] # NaT
           /\ DateOf(r.cells["Date"]) < from_date
           /\ ~InView(r)

\* C3: in every run and for every choice of filters, no Record with a null
\* date is in the FilteredView: the date range is always set (both ends are
\* dates between the sheet's first and last day).
C3_NoNullDateInView ==
    /\ \A k \in 1..Len(filtered_df) : filtered_df[k].cells["Date"] # NaT
    /\ HasView => /\ from_date \in MinDate(df)..MaxDate(df)
                  /\ to_date \in MinDate(df)..MaxDate(df)

\* C3 witness: with every selectbox at "All" and the full date range, the
\* only Record missing from the view is the one without a date.
C3_Witness ==
    /\ HasView
    /\ SetFields = {}
    /\ from_date = MinDate(df) /\ to_date = MaxDate(df)
    /\ Len(filtered_df) = 1
    /\ Len(df) = 2
    /\ \E r \in DfRows : r.cells["Date"] = NaT /\ ~InView(r)

\* The Records of the Dataset that have no date.
NullDated(r) == r.cells["Date"] = NaT

\* The main body ran through the metrics and the time series.
HasMetrics == outcome = "ok" /\ filtered_df # <<>>

\* C4 as stated: a Record with an unparseable date is left out of the date
\* range match and of the time series, but is counted in total when it
\* passes all other predicates.
C4_NullDateCountedInTotal ==
    HasMetrics =>
        /\ \A r \in DfRows : NullDated(r) => ~InView(r)
        /\ total_demos =
               Cardinality({ r \in DfRows :
                               FieldsOK(r) /\ (NullDated(r) \/ InDateRange(r)) })

\* C4 amended: a Record with an unparseable date is left out of the view,
\* of the time series and of total as well: total counts exactly the
\* Records inside the date range that pass the field predicates, and no
\* day of the series counts more Records than the view holds on that day.
C4_NullDateNeverCounted ==
    HasMetrics =>
        /\ \A r \in DfRows : NullDated(r) => ~InView(r)
        /\ total_demos =
               Cardinality({ r \in DfRows : FieldsOK(r) /\ InDateRange(r) })
        /\ \A k \in 1..Len(daily_data) :
               daily_data[k].Total_Demos <=
                   Cardinality({ r \in DfRows :
                                   /\ FieldsOK(r) /\ InDateRange(r)
                                   /\ DateOf(r.cells["Date"]) = daily_data[k].Date })

\* C4 witness: with a field predicate set, a Record without a date passes
\* every field predicate and the metrics are computed without it.
C4_Witness ==
    /\ HasMetrics
    /\ SetFields # {}
    /\ \E r \in DfRows : NullDated(r) /\ FieldsOK(r)
    /\ total_demos = 1
    /\ Len(daily_data) = 1

\* The widgets are as in the first run over the Dataset.
AllUnset ==
    /\ SetFields = {}
    /\ from_date = MinDate(df)
    /\ to_date = MaxDate(df)

\* C5 as stated: every predicate unset and the date range spanning the
\* Dataset's first to last date, the view is the entire Dataset.
C5_AllUnsetIsDataset == (HasView /\ AllUnset) => filtered_df = df

\* C5 amended: every predicate unset and the date range spanning the
\* Dataset's first to last date, the view is the Dataset without its
\* null-date Records, in original order.
C5_AllUnsetIsDatedRows ==
    (HasView /\ AllUnset) =>
        LET dated(r) == ~NullDated(r) IN filtered_df = SelectSeq(df, dated)

\* C5 witness: the all-unset view of a Dataset with a null-date Record.
C5_Witness ==
    /\ HasView /\ AllUnset
    /\ Len(df) = 2
    /\ NullDated(df[1])
    /\ filtered_df = <<df[2]>>

\* C6: a set field predicate keeps exactly the Records whose cell is
\* identical to the selected value: the view is the view without that
\* predicate, restricted to the Records with exactly that value.
C6_ExactMatch ==
    HasView =>
        \A c \in SetFields :
            /\ c \in cols
            /\ LET without == ApplyFilters(df, cols, [Held EXCEPT !.sel[c] = All])
                   exact(r) == r.cells[c] = selected[c]
               IN  /\ ~without.raised
                   /\ filtered_df = SelectSeq(without.rows, exact)

\* C6 witness: "Done" is selected and a Record whose status differs from it
\* only by case or by a trailing blank is removed, another Record is kept.
C6_Witness ==
    /\ HasView
    /\ selected["Status"] = "Done"
    /\ \E r \in DfRows : InView(r)
    /\ \E r \in DfRows :
           /\ r.cells["Status"] \in {"done", "Done "}
           /\ InDateRange(r)
           /\ ~InView(r)

\* The cell values of the sheet.
CellValues == UNION { { r[c] : c \in FieldCols } : r \in SheetRows }

\* C7: a predicate on an optional field the schema lacks is ignored: the
\* run leaves it at "All", and the filter gives the same view, without
\* raising, whatever value the criteria name for it.
C7_AbsentFieldIgnored ==
    HasView =>
        \A c \in OptionalCols \ cols :
            /\ selected[c] = All
            /\ \A v \in CellValues :
                   ApplyFilters(df, cols, [Held EXCEPT !.sel[c] = v])
                       = Frame(filtered_df)

\* C7 witness: the schema lacks Industry, another predicate is set and the
\* view is not empty.
C7_Witness ==
    /\ HasView
    /\ "Industry" \notin cols
    /\ SetFields # {}
    /\ filtered_df # <<>>
    /\ Len(filtered_df) < Len(df)

\* The orders in which the predicates of the set S can be applied.
Orders(S) ==
    { o \in [1..Cardinality(S) -> S] :
        \A i, j \in 1..Cardinality(S) : i # j => o[i] # o[j] }

\* C8: applying the set predicates (the date range and every field
\* predicate that is not "All") in any order gives the FilteredView, the
\* same Records in the same order.
C8_OrderIndependent ==
    HasView =>
        \A o \in Orders({"Date"} \cup SetFields) :
            ApplyInOrder(o, Frame(df), cols, Held) = Frame(filtered_df)

\* C8 witness: the date range and two field predicates are set, one Record
\* is kept and another, inside the date range, fails a field predicate.
C8_Witness ==
    /\ HasView
    /\ Cardinality(SetFields) >= 2
    /\ filtered_df # <<>>
    /\ \E r \in DfRows : InDateRange(r) /\ ~FieldsOK(r)

\* C9: the FilteredView is a subsequence of the Dataset: every Record of
\* the view is a Record of the Dataset, and the view lists them in the
\* Dataset's order, none twice.
C9_ViewIsSubsequence ==
    \A k \in 1..Len(filtered_df) :
        /\ filtered_df[k] \in DfRows
        /\ \A j \in 1..(k - 1) : filtered_df[j].idx < filtered_df[k].idx

\* C9 witness: a view of two Records.
C9_Witness ==
    /\ HasView
    /\ Len(filtered_df) = 2
    /\ SetFields # {}

\* C10: filtering is idempotent: the filter run again over the Dataset, and
\* the filter applied to the FilteredView itself, both give the
\* FilteredView.
C10_Idempotent ==
    HasView =>
        /\ ApplyFilters(df, cols, Held) = Frame(filtered_df)
        /\ ApplyFilters(filtered_df, cols, Held) = Frame(filtered_df)

\* C10 witness: a predicate is set and the view keeps some Records and
\* removes others.
C10_Witness ==
    /\ HasView
    /\ selected["SDR"] # All
    /\ filtered_df # <<>>
    /\ Len(filtered_df) < Len(df)

----------------------------------------------------------------------------
(* The display and the figures *)

\* What one run of the script displays.
Display ==
    [outcome |-> outcome, filtered_df |-> filtered_df,
     total_demos |-> total_demos, daily_data |-> daily_data,
     st_error |-> st_error, filtered_count |-> filtered_count,
     completion_rate |-> completion_rate, completed_count |-> completed_count,
     scheduled_count |-> scheduled_count, sdr_summary |-> sdr_summary,
     source_summary |-> source_summary, team_summary |-> team_summary,
     ae_summary |-> ae_summary, main_section |-> main_section,
     total_records |-> total_records, completed |-> completed,
     scheduled |-> scheduled, leaderboard |-> leaderboard]

\* What a run over the Dataset with the given criteria displays.
DisplayOf(run) == [f \in DOMAIN Display |-> run[f]]

\* C11: after any sequence of interactions the displayed view and figures
\* are those of one run of the pipeline over the current Dataset with the
\* criteria the widgets hold now; criteria held earlier leave no trace.
C11_DisplayFromCurrentCriteria ==
    /\ df = IF {"Date", "SDR"} \subseteq cols THEN ParseDates(raw) ELSE raw
    /\ WidgetsShown => Display = DisplayOf(RunScript(raw, cols, Held))

\* C11 witness: the SDR predicate and the "From" date were both changed
\* after the load, and the view holds some Records but not all dated ones.
C11_Witness ==
    /\ HasView
    /\ selected["SDR"] # All
    /\ from_date # MinDate(df)
    /\ filtered_df # <<>>
    /\ \E r \in DfRows : ~NullDated(r) /\ ~InView(r)

\* The positions of the view whose status lower-cases to one of S.
ViewWith(S) ==
    { j \in 1..Len(filtered_df) :
        /\ filtered_df[j].cells["Status"] # NaN
        /\ StrLower(filtered_df[j].cells["Status"]) \in S }

\* C12: for any view, done_count <= scheduled_count <= total, done_count
\* counting the status "done" and scheduled_count the statuses "done",
\* "scheduled" and "rescheduled".
C12_DoneWithinScheduledWithinTotal ==
    HasMetrics =>
        /\ completed_count = Cardinality(ViewWith({"done"}))
        /\ scheduled_count =
               Cardinality(ViewWith({"done", "scheduled", "rescheduled"}))
        /\ completed_count <= scheduled_count
        /\ scheduled_count <= total_demos

\* C12 witness: a view of three Records, one done, one more scheduled and
\* one neither, so that both inequalities are strict.
C12_Witness ==
    /\ HasMetrics
    /\ completed_count = 1
    /\ scheduled_count = 2
    /\ total_demos = 3

\* C13: completion_rate is done_count / total of the view when total > 0
\* (as a percentage with one decimal) and exactly 0 when total is 0, the
\* view being empty or absent; no run divides by zero.
C13_CompletionRate ==
    /\ outcome # "ZeroDivisionError"
    /\ Len(filtered_df) = 0 => completion_rate = 0
    /\ (outcome = "ok" /\ Len(filtered_df) > 0) =>
           LET done == Cardinality(ViewWith({"done"}))
               total == Len(filtered_df)
               off == completion_rate * total - 1000 * done
           IN  2 * off <= total /\ -2 * off <= total

\* C13 witness: one Record of three is done and the rate is 33.3 %.
C13_Witness ==
    /\ outcome = "ok"
    /\ Len(filtered_df) = 3
    /\ Cardinality(ViewWith({"done"})) = 1
    /\ completion_rate = 333

RECURSIVE SumTotals(_)
SumTotals(table) ==
    IF table = <<>> THEN 0
    ELSE Head(table).Total_Demos + SumTotals(Tail(table))

\* The table of a dimension, for the dimensions the schema holds.
Dimensions == {"SDR", "Source", "Sales Team", "AE"} \cap cols

TableOf(c) ==
    CASE c = "SDR" -> sdr_summary
      [] c = "Source" -> source_summary
      [] c = "Sales Team" -> team_summary
      [] c = "AE" -> ae_summary

\* The positions of the view whose cell of column c is v.
ViewAt(c, v) == { j \in 1..Len(filtered_df) : filtered_df[j].cells[c] = v }

\* C14 as stated: for each dimension present in the schema, the per-group
\* totals of the breakdown sum to the total of the view, Records with a
\* missing dimension value or status included.
C14_GroupTotalsSumToTotal ==
    HasMetrics => \A c \in Dimensions : SumTotals(TableOf(c)) = total_demos

\* C15 as stated: every group's total is the number of view Records with
\* that dimension value, its done_count the number of those whose status is
\* "done", and its success_rate is done_count / total of the group.
C15_GroupFigures ==
    HasMetrics =>
        \A c \in Dimensions : \A k \in 1..Len(TableOf(c)) :
            LET g == TableOf(c)[k]
                members == ViewAt(c, g.Key)
                off == g.Success_Rate * g.Total_Demos - 1000 * g.Completed_Demos
            IN  /\ g.Total_Demos = Cardinality(members)
                /\ g.Completed_Demos = Cardinality(members \cap ViewWith({"done"}))
                /\ g.Completed_Demos <= g.Total_Demos
                /\ 2 * off <= g.Total_Demos /\ -2 * off <= g.Total_Demos

\* The keys of a table, in the order of its rows.
KeysOf(table) == [k \in 1..Len(table) |-> table[k].Key]

\* C16 as stated: the groups of a breakdown are reported in first-seen
\* order of the dimension's distinct values within the view.
C16_FirstSeenOrder ==
    HasMetrics =>
        \A c \in Dimensions : KeysOf(TableOf(c)) = FirstSeen(filtered_df, c)

\* C16 amended: the groups of a breakdown are the dimension's distinct
\* non-missing values within the view, each once, in ascending order of
\* the value.
C16_AscendingOrder ==
    HasMetrics =>
        \A c \in Dimensions :
            LET keys == KeysOf(TableOf(c))
            IN  /\ { keys[k] : k \in 1..Len(keys) } =
                       { filtered_df[j].cells[c] : j \in 1..Len(filtered_df) } \ {NaN}
                /\ \A k \in 1..Len(keys) - 1 :
                       StrRank(keys[k]) < StrRank(keys[k + 1])

\* C16 witness: SDR "B" is seen before SDR "A" in the view and the SDR
\* table lists "A" first.
C16_Witness ==
    /\ HasMetrics
    /\ filtered_df[1].cells["SDR"] = "B"
    /\ KeysOf(sdr_summary) = <<"A", "B">>

\* C17 as stated: the time series has exactly one entry per calendar date
\* occurring in the view, in strictly ascending date order, and each
\* entry's total and done_count are the counts of the view's Records on
\* that date.
C17_DailyCounts ==
    HasMetrics =>
        /\ { daily_data[k].Date : k \in 1..Len(daily_data) } =
               { DateOf(filtered_df[j].cells["Date"]) : j \in 1..Len(filtered_df) }
        /\ \A k \in 1..Len(daily_data) - 1 :
               daily_data[k].Date < daily_data[k + 1].Date
        /\ \A k \in 1..Len(daily_data) :
               LET on == { j \in 1..Len(filtered_df) :
                             DateOf(filtered_df[j].cells["Date"]) = daily_data[k].Date }
               IN  /\ daily_data[k].Total_Demos = Cardinality(on)
                   /\ daily_data[k].Completed_Demos =
                          Cardinality(on \cap ViewWith({"done"}))

\* C18: an empty view is a valid outcome and never an error: the filter
\* completes, the filtered count and the completion rate are 0, and no
\* group breakdown and no time series is produced for it.
C18_EmptyViewIsValid ==
    (HasView /\ filtered_df = <<>>) =>
        /\ outcome = "ok"
        /\ st_error = {}
        /\ filtered_count = 0
        /\ completion_rate = 0
        /\ main_section = "no match"
        /\ \A c \in {"SDR", "Source", "Sales Team", "AE"} : TableOf(c) = <<>>
        /\ daily_data = <<>>

\* C18 witness: the Dataset has dated Records and the criteria held match
\* none of them.
C18_Witness ==
    /\ HasView
    /\ \E r \in DfRows : ~NullDated(r)
    /\ from_date <= to_date
    /\ selected["SDR"] # All
    /\ filtered_df = <<>>
    /\ main_section = "no match"

----------------------------------------------------------------------------
(* Data validation *)

\* A sheet with rows was loaded.
Loaded == outcome # "no data" /\ raw # <<>>

\* The run stopped at the validation: nothing was derived, filtered or
\* aggregated.
Aborted ==
    /\ outcome \in {"missing Date", "missing SDR"}
    /\ df = raw
    /\ filtered_df = <<>>
    /\ main_section = "none"

\* C19 as stated: if the Dataset lacks the date field or the SDR field, the
\* pipeline aborts before any date derivation, filtering or aggregation,
\* and the reported error names every missing required field.
C19_EveryMissingFieldNamed ==
    (Loaded /\ {"Date", "SDR"} \ cols # {}) =>
        Aborted /\ st_error = {"Date", "SDR"} \ cols

----------------------------------------------------------------------------
(* Status normalisation *)

\* The positions of the view whose status, trimmed and lower-cased, is in S.
ViewNormalized(S) ==
    { j \in 1..Len(filtered_df) :
        /\ filtered_df[j].cells["Status"] # NaN
        /\ StripLower(filtered_df[j].cells["Status"]) \in S }

\* C21 as stated: the done classification compares the status after
\* trimming whitespace and lower-casing, so statuses differing from "done"
\* only by case or surrounding whitespace are counted in done_count in
\* every place it is computed: the card, the per-group tables, the
\* per-day series.
C21_DoneIgnoresCaseAndBlanks ==
    HasMetrics =>
        /\ completed_count = Cardinality(ViewNormalized({"done"}))
        /\ \A k \in 1..Len(sdr_summary) :
               sdr_summary[k].Completed_Demos =
                   Cardinality(ViewAt("SDR", sdr_summary[k].Key)
                                 \cap ViewNormalized({"done"}))
        /\ \A k \in 1..Len(daily_data) :
               daily_data[k].Completed_Demos =
                   Cardinality({ j \in ViewNormalized({"done"}) :
                                   DateOf(filtered_df[j].cells["Date"]) =
                                       daily_data[k].Date })

----------------------------------------------------------------------------
(* Parse warnings, the Dataset under filtering, the overview figures *)

\* C25 as stated: Records whose date fails to parse are retained in the
\* Dataset with a null date, the record count being unchanged by the
\* parsing, and their number is reported as a single warning count.
C25_NullDatesRetainedAndCounted ==
    (Loaded /\ {"Date", "SDR"} \subseteq cols) =>
        /\ Len(df) = Len(raw)
        /\ \A i \in 1..Len(raw) :
               ~raw[i].cells["Date"].ok => df[i].cells["Date"] = NaT
        /\ LET n == Cardinality({ i \in 1..Len(df) : df[i].cells["Date"] = NaT })
           IN  n > 0 => ParseWarningCounts = {n}

\* C26: running the filter leaves the Dataset unchanged: across every
\* change of the criteria the Dataset has the same Records in the same
\* order with the same values, and "Total Records" is its size whatever
\* the filters select.
C26_FilterKeepsDataset ==
    [][(WidgetsShown /\ outcome' # "no data") =>
          /\ raw' = raw
          /\ df' = df
          /\ total_records = Len(df)
          /\ total_records' = total_records]_vars

\* C26 witness: a predicate is set, the view holds fewer Records than the
\* Dataset, and "Total Records" still counts the Dataset.
C26_Witness ==
    /\ HasView
    /\ selected["SDR"] # All
    /\ Len(df) = 2
    /\ filtered_count = 1
    /\ total_records = 2

\* C29: the "Scheduled Demos" card (done, scheduled or rescheduled) equals
\* the "Completed" metric plus the "Scheduled" metric (scheduled or
\* rescheduled) of the overview row, for every view.
C29_ScheduledFiguresAgree ==
    HasMetrics =>
        /\ completed = Cardinality(ViewWith({"done"}))
        /\ scheduled = Cardinality(ViewWith({"scheduled", "rescheduled"}))
        /\ scheduled_count = completed + scheduled

\* C29 witness: a view with a done, a scheduled and a no-show Record.
C29_Witness ==
    /\ HasMetrics
    /\ completed = 1
    /\ scheduled = 1
    /\ scheduled_count = 2
    /\ filtered_count = 3

\* C30 as stated: every value of an option list other than the "All" entry
\* selects exactly the Records carrying it; a data value, the literal
\* "All" included, is never treated as the unset predicate.
C30_DataValueSelectsItsRecords ==
    HasView =>
        \A c \in FieldCols \cap cols :
            selected[c] \in Uniques(df, c) =>
                \A j \in 1..Len(filtered_df) :
                    filtered_df[j].cells[c] = selected[c]

----------------------------------------------------------------------------
(* The AE leaderboard *)

\* C27: the AE leaderboard is a display-time transform of the AE table:
\* its rows are distinct rows of the AE table with unchanged figures, in
\* descending order of success rate, and there are min(10, number of AE
\* groups) of them.
C27_LeaderboardFromAeTable ==
    (HasMetrics /\ "AE" \in cols) =>
        LET n == Len(ae_summary)
            m == Len(leaderboard)
        IN  /\ m = IF n < 10 THEN n ELSE 10
            /\ \A k \in 1..m : \E g \in 1..n : ae_summary[g] = leaderboard[k]
            /\ \A k, l \in 1..m :
                   k # l => leaderboard[k].Key # leaderboard[l].Key
            /\ \A k \in 1..m - 1 :
                   \/ leaderboard[k + 1].Success_Rate = NaNRate
                   \/ /\ leaderboard[k].Success_Rate # NaNRate
                      /\ leaderboard[k].Success_Rate >=
                             leaderboard[k + 1].Success_Rate

\* C27 witness: twelve AE groups of which ten are listed, the first one
\* listed not being the first group of the table, and the list runs from
\* 100 % down to a lower rate.
C27_Witness ==
    /\ HasMetrics
    /\ Len(ae_summary) = 12
    /\ Len(leaderboard) = 10
    /\ leaderboard[1].Key # ae_summary[1].Key
    /\ leaderboard[1].Success_Rate = 1000
    /\ leaderboard[10].Success_Rate < 1000

----------------------------------------------------------------------------
(* The memoized fetch *)

\* The step is a run of the script.
RunStep == run_no' # run_no

\* The run showed what the loader's value v leads to: its error, or the
\* Dataset parsed from its frame.
Served(v) ==
    /\ error' = v.error
    /\ v.error # None => outcome' = "fetch error" /\ df' = <<>>
    /\ v.error = None => raw' = v.df /\ df' = ParseDates(v.df)

\* C22: within the time-to-live window after a fetch, every run that is
\* not a manual refresh reuses the memoized Dataset and makes no request;
\* so a run that is not a refresh makes a request only when no entry
\* younger than the ttl exists, at most one fetch per window.
C22_MemoizedWithinTtl ==
    [][(RunStep /\ ~refresh_pressed') =>
          /\ (cache.full /\ cache.age < Ttl) =>
                 (requests' = 0 /\ cache' = cache /\ Served(cache.value))
          /\ requests' > 0 => (~cache.full \/ cache.age >= Ttl)]_vars

\* C22 witness: a rerun inside the window made no request and shows the
\* memoized Dataset although the sheet has changed meanwhile.
C22_Witness ==
    /\ run_no > 1
    /\ ~refresh_pressed
    /\ requests = 0
    /\ cache.age > 0 /\ cache.age < Ttl
    /\ error = None
    /\ remote.status = 200
    /\ raw # Request(remote).df

\* C23: a manual refresh invalidates the memoization unconditionally:
\* whatever the cache holds and however young its entry, the run that
\* follows the press makes a new request and serves its result, never the
\* value memoized before.
C23_RefreshAlwaysFetches ==
    [][(RunStep /\ refresh_pressed') =>
          /\ requests' = 1
          /\ cache' = [full |-> TRUE, value |-> Request(remote), age |-> 0]
          /\ Served(Request(remote))]_vars

\* C23 witness: the run after a press requested the sheet and shows its
\* two Records.
C23_Witness ==
    /\ refresh_pressed
    /\ run_no > 1
    /\ requests = 1
    /\ cache.age = 0
    /\ error = None
    /\ Len(df) = 2

\* C24: when the fetch fails (exception, timeout or a non-200 response)
\* the error is surfaced and the run halts before validation, filtering
\* and aggregation: no view and no figure is produced, and the run that
\* fetched made exactly one request.
C24_FetchFailureHalts ==
    /\ requests \in {0, 1}
    /\ (data_source = GoogleSheets /\ (run_no = 1 \/ refresh_pressed)) =>
           requests = 1
    /\ error # None =>
           /\ outcome = "fetch error"
           /\ ~WidgetsShown
           /\ df = <<>>
           /\ filtered_df = <<>>
           /\ Display = [f \in DOMAIN Display |->
                            Halted(<<>>, {}, <<>>, "fetch error")[f]]
           /\ total_records = 0 /\ filtered_count = 0 /\ main_section = "none"

\* C24 witness: a run met a non-200 response, made its one request and
\* shows the error.
C24_Witness ==
    /\ data_source = GoogleSheets
    /\ requests = 1
    /\ error = "Failed to fetch data. Status code: 500"
    /\ outcome = "fetch error"

\* C28: a failed fetch is memoized like a successful one: the error a run
\* fetched is in the cache, and every run inside the window that is not a
\* refresh reports that error again without a request; the error state
\* ends only with a refresh or the expiry of the entry.
C28_FailureIsMemoized ==
    [][RunStep =>
          /\ error' # None => (cache'.full /\ cache'.value.error = error')
          /\ (~refresh_pressed' /\ cache.full /\ cache.age < Ttl
                 /\ cache.value.error # None) =>
                 /\ requests' = 0
                 /\ error' = cache.value.error
                 /\ outcome' = "fetch error"]_vars

\* C28 witness: a rerun inside the window still reports the memoized
\* error, without a request, although the source has recovered.
C28_Witness ==
    /\ run_no > 1
    /\ ~refresh_pressed
    /\ requests = 0
    /\ cache.age < Ttl
    /\ error # None
    /\ Request(remote).error = None

====
